---- MODULE Spec2Model ----
(***************************************************************************)
(* TFPnP: the MDDPG training loop (tfpnp/trainer/mddpg/trainer.py), as it   *)
(* is constructed by tasks/spi/main.py.  The trainer is a single           *)
(* sequential process; pc is its position inside train(),                  *)
(* _update_policy() and _update().  The replay memory, the environment and  *)
(* the actor are collaborators whose code is outside the files modelled    *)
(* here; they are modelled from their documented contract.                 *)
(***************************************************************************)
EXTENDS Integers, Sequences, FiniteSets, TLC

\* ---------------------------------------------------------------- bounds
MaxTrainSteps == 3
MaxWarmup == 2
MaxEpisodeStep == 2
MaxEnvBatch == 2
MaxRmsize == 1
MaxValidateInterval == 2
MaxSaveFreq == 2
MaxTrainTimes == 2
MaxValSamples == 2

\* ---------------------------------------------------------------- values
\* Python's None for a hidden state (non-recurrent actor)
None == 0 - 1
\* np.zeros(B): the dummy hidden state stored for a non-recurrent actor
Dummy == 0 - 2

VARIABLES
    opt,              \* the options (constant during a run)
    evaluator,        \* TRUE iff self.evaluator is not None
    actor_rnn,        \* TRUE iff the actor carries a hidden state
    pc,               \* position of the trainer
    step,             \* global step of the for loop
    episode,          \* train(): episode
    episode_step,     \* train(): episode_step
    ob,               \* train(): ob
    hidden,           \* train(): hidden
    ob2_masked,       \* train(): ob2_masked
    done,             \* train(): done
    env,              \* the training environment (self.env)
    buffer,           \* self.buffer
    samples,          \* _update_policy(): samples
    k,                \* _update_policy(): iterations completed
    actor,            \* actor parameters: number of optimizer steps taken
    critic,           \* critic parameters: number of optimizer steps taken
    critic_target,    \* critic-target parameters: the critic versions blended in
    actor_training,   \* actor.training (nn.Module mode flag)
    latest,           \* content of actor.pkl / critic.pkl
    ckpts,            \* step-numbered checkpoints written
    evals,            \* number of Evaluator.eval passes
    act_in,           \* input of the last rollout actor call
    stored,           \* total number of records handed to buffer.store
    counts,           \* calls made so far, per operation
    trace,            \* the calls made during the current loop iteration
    eval_env,         \* the evaluator's environment (main.py:52)
    ev,               \* eval_single(): its locals
    upd               \* _update(): its tensors, per sample of the batch

vars == <<opt, evaluator, actor_rnn, pc, step, episode, episode_step, ob,
          hidden, ob2_masked, done, env, buffer, samples, k, actor, critic,
          critic_target, actor_training, latest, ckpts, evals, act_in,
          stored, counts, trace, eval_env, ev, upd>>

\* ---------------------------------------------------------------- helpers
Min(a, b) == IF a < b THEN a ELSE b

Count(e, s) == Cardinality({i \in 1..Len(s) : s[i] = e})

\* position of the first occurrence of e in s (0 when absent)
First(e, s) == IF \E i \in 1..Len(s) : s[i] = e
               THEN CHOOSE i \in 1..Len(s) : s[i] = e /\ \A j \in 1..(i-1) : s[j] # e
               ELSE 0

NoOb == [ep |-> 0, t |-> 0, B |-> 0]

NoCkpt == [actor |-> None, critic |-> None]

\* the option values explored: a window below each bound
Options == [train_steps : {MaxTrainSteps},
            warmup : (MaxWarmup - 2)..MaxWarmup,
            max_episode_step : (MaxEpisodeStep - 1)..MaxEpisodeStep,
            env_batch : (MaxEnvBatch - 1)..MaxEnvBatch,
            rmsize : {MaxRmsize},
            validate_interval : (MaxValidateInterval - 1)..MaxValidateInterval,
            save_freq : {MaxSaveFreq},
            episode_train_times : (MaxTrainTimes - 1)..MaxTrainTimes]

\* ---------------------------------------------------------------- replay memory
\* ReplayMemory(capacity): fixed-capacity ring
Capacity == opt.rmsize * opt.max_episode_step

Size(buf) == Len(buf.data)

\* ReplayMemory.store: write at the cursor, advance it modulo capacity
Store(buf, rec) ==
    IF Len(buf.data) < Capacity
    THEN [data |-> Append(buf.data, rec), pos |-> (buf.pos + 1) % Capacity]
    ELSE [data |-> [buf.data EXCEPT ![buf.pos + 1] = rec],
          pos |-> (buf.pos + 1) % Capacity]

\* ---------------------------------------------------------------- actor
\* actor.init_state()
InitState == IF actor_rnn THEN 0 ELSE None

\* the next hidden state returned by a call of the actor
NextHidden(h) == IF actor_rnn THEN h + 1 ELSE None

\* ---------------------------------------------------------------- environment
\* env.reset(): a fresh batch of env_batch samples, step counter 0
EnvReset(e) == [episode |-> e.episode + 1, cur_step |-> 0, left |-> opt.env_batch]

\* the observation of the samples still running
Observation(e) == [ep |-> e.episode, t |-> e.cur_step, B |-> e.left]

\* env.step(): l of the running samples keep running
EnvStep(e, l) == [e EXCEPT !.cur_step = e.cur_step + 1, !.left = l]

\* done as returned by env.step(): every sample stopped, or the step cap
EnvDone(e) == e.left = 0 \/ e.cur_step = opt.max_episode_step

\* ---------------------------------------------------------------- trainer conditions
\* variant: the test forgets the environment's done
EndOfTrajectory_capOnly == episode_step = opt.max_episode_step

\* trainer.py:61
EndOfTrajectory == done \/ episode_step = opt.max_episode_step

\* variant: learning starts one step late
PastWarmup_late == step > opt.warmup + 1

\* variant: learning starts at the warmup step itself
PastWarmup_early == step >= opt.warmup

\* trainer.py:62 and :71
PastWarmup == step > opt.warmup

\* variant: the interval is tested on episode instead of episode + 1
ValidateDue_offByOne == evaluator /\ episode % opt.validate_interval = 0

\* trainer.py:63
ValidateDue == evaluator /\ (episode + 1) % opt.validate_interval = 0

\* variant: no checkpoint forced at the final step
SaveDue_noFinal(s) == s % opt.save_freq = 0

\* trainer.py:92
SaveDue(s) == s % opt.save_freq = 0 \/ s = opt.train_steps

\* the hidden state save_experience attaches to the stored observation
StoredHidden(h) == IF h # None THEN h ELSE Dummy

\* the record of sample i of observation o
Record(o, i, h) == [ep |-> o.ep, t |-> o.t, i |-> i, hidden |-> StoredHidden(h)]

RECURSIVE StoreAll(_, _, _, _)
\* trainer.py:196-197: for i in range(B): self.buffer.store(ob[i])
StoreAll(buf, o, h, i) ==
    IF i > o.B THEN buf
    ELSE StoreAll(Store(buf, Record(o, i, h)), o, h, i + 1)

\* variant: save_experience pushes nothing
save_experience_none(buf, o, h) == buf

\* variant: only the first sample of the batch is stored
save_experience_firstOnly(buf, o, h) ==
    IF o.B >= 1 THEN Store(buf, Record(o, 1, h)) ELSE buf

\* save_experience (trainer.py:184-197): the buffer after storing ob with hidden
save_experience(buf, o, h) == StoreAll(buf, o, h, 1)

\* variant: the range runs one step too far
LoopContinues_oneMore == step < opt.train_steps + 1

\* trainer.py:47: for step in range(1, train_steps+1)
LoopContinues == step < opt.train_steps

\* trainer.py:103: for _ in range(episode_train_times)
TrainIterationsLeft == k < opt.episode_train_times

Bump(c, f) == [c EXCEPT ![f] = @ + 1]

\* ---------------------------------------------------------------- Init
\* MDDPGTrainer.__init__ (trainer.py:16-37) and the two environments of main()
Constructed ==
    /\ actor_rnn \in BOOLEAN
    /\ pc = "start"
    /\ step = 0
    /\ episode = 0
    /\ episode_step = 0
    /\ ob = NoOb
    /\ hidden = None
    /\ ob2_masked = NoOb
    /\ done = FALSE
    /\ env = [episode |-> 0, cur_step |-> 0, left |-> 0]
    /\ buffer = [data |-> <<>>, pos |-> 0]
    /\ samples = <<>>
    /\ k = 0
    /\ actor = 0
    /\ critic = 0
    /\ critic_target = <<0>>
    /\ actor_training = TRUE
    /\ latest = NoCkpt
    /\ ckpts = {}
    /\ evals = 0
    /\ act_in = [ob |-> NoOb, hidden |-> None, first |-> FALSE, training |-> TRUE]
    /\ stored = 0
    /\ counts = [select |-> 0, envstep |-> 0, save |-> 0, update_policy |-> 0,
                 update |-> 0, actor_step |-> 0, critic_step |-> 0]
    /\ trace = <<>>
    /\ eval_env = [episode |-> 0, cur_step |-> 0, left |-> 0]

\* eval_single() not running
EvIdle == [pc |-> "idle", sample |-> 0, episode_steps |-> 0, episode_reward |-> 0,
           psnr_seq |-> 0, reward_seq |-> <<>>, raw_seq |-> <<>>,
           done_seq |-> <<>>, done |-> FALSE, loop_penalty |-> 0]

\* _update() not running
UpdIdle == [pc |-> "idle", n |-> 0, loop_penalty |-> 0, raw |-> <<>>,
            idx_stop |-> <<>>, V_cur |-> <<>>, V_target |-> <<>>, V_critic |-> <<>>,
            reward |-> <<>>, Q_target |-> <<>>, advantage |-> <<>>,
            ddpg_loss |-> <<>>, actor_grad |-> {}, critic_grad |-> {},
            actor_applied |-> <<>>, critic_applied |-> <<>>, completed |-> 0]

\* the trainer as main() constructs it (main.py:87-90), which always passes
\* the evaluator built at main.py:53
Init ==
    /\ opt \in Options
    /\ evaluator = TRUE
    /\ Constructed
    /\ ev = EvIdle
    /\ upd = UpdIdle

\* ---------------------------------------------------------------- train()
\* trainer.py:41-44
TrainStart ==
    /\ pc = "start"
    /\ env' = EnvReset(env)
    /\ ob' = Observation(env')
    /\ hidden' = InitState
    /\ episode' = 0
    /\ episode_step' = 0
    /\ pc' = "loop"
    /\ UNCHANGED <<upd, ev, eval_env, opt, evaluator, actor_rnn, step, ob2_masked, done, buffer,
                   samples, k, actor, critic, critic_target, actor_training,
                   latest, ckpts, evals, act_in, stored, counts, trace>>

\* trainer.py:47
LoopHead ==
    /\ pc = "loop"
    /\ IF LoopContinues
       THEN step' = step + 1 /\ pc' = "select" /\ trace' = <<>>
       ELSE pc' = "done" /\ UNCHANGED <<step, trace>>
    /\ UNCHANGED <<upd, ev, eval_env, opt, evaluator, actor_rnn, episode, episode_step, ob, hidden,
                   ob2_masked, done, env, buffer, samples, k, actor, critic,
                   critic_target, actor_training, latest, ckpts, evals, act_in,
                   stored, counts>>

\* trainer.py:49 and run_policy (177-182)
RunPolicy ==
    /\ pc = "select"
    /\ act_in' = [ob |-> ob, hidden |-> hidden, first |-> (episode_step = 0),
                  training |-> FALSE]
    /\ hidden' = NextHidden(hidden)
    /\ actor_training' = TRUE
    /\ counts' = Bump(counts, "select")
    /\ trace' = Append(trace, "select")
    /\ pc' = "envstep"
    /\ UNCHANGED <<upd, ev, eval_env, opt, evaluator, actor_rnn, step, episode, episode_step, ob,
                   ob2_masked, done, env, buffer, samples, k, actor, critic,
                   critic_target, latest, ckpts, evals, stored>>

\* trainer.py:52-53
StepEnv ==
    /\ pc = "envstep"
    /\ \E l \in 0..env.left :
         /\ env' = EnvStep(env, l)
         /\ ob2_masked' = Observation(env')
         /\ done' = EnvDone(env')
    /\ episode_step' = episode_step + 1
    /\ counts' = Bump(counts, "envstep")
    /\ trace' = Append(trace, "envstep")
    /\ pc' = "store"
    /\ UNCHANGED <<upd, ev, eval_env, opt, evaluator, actor_rnn, step, episode, ob, hidden, buffer,
                   samples, k, actor, critic, critic_target, actor_training,
                   latest, ckpts, evals, act_in, stored>>

\* trainer.py:56-58 and save_experience (184-197)
StoreExperience ==
    /\ pc = "store"
    /\ buffer' = save_experience(buffer, ob, hidden)
    /\ stored' = stored + ob.B
    /\ ob' = ob2_masked
    /\ counts' = Bump(counts, "save")
    /\ trace' = Append(trace, "save")
    /\ pc' = "traj"
    /\ UNCHANGED <<upd, ev, eval_env, opt, evaluator, actor_rnn, step, episode, episode_step, hidden,
                   ob2_masked, done, env, samples, k, actor, critic,
                   critic_target, actor_training, latest, ckpts, evals, act_in>>

\* trainer.py:61-63
TrajectoryTest ==
    /\ pc = "traj"
    /\ pc' = IF ~EndOfTrajectory THEN "savetest"
             ELSE IF PastWarmup /\ ValidateDue THEN "traj_eval"
             ELSE "traj_update"
    /\ UNCHANGED <<upd, ev, eval_env, opt, evaluator, actor_rnn, step, episode, episode_step, ob,
                   hidden, ob2_masked, done, env, buffer, samples, k, actor,
                   critic, critic_target, actor_training, latest, ckpts, evals,
                   act_in, stored, counts, trace>>

\* variant: the evaluator is given the training environment
EvaluatorEnv_shared == "env"

\* main.py:52-53: the evaluator has an environment of its own
EvaluatorEnv == "eval_env"

\* an environment after Evaluator.eval ran eval_single on it for each held-out
\* sample: one reset per sample (evaluator.py:74), then the steps of the last
\* episode, which ends stopped or at the step cap (evaluator.py:89-114)
EvalPassOutcomes(e) ==
    {[episode |-> e.episode + MaxValSamples, cur_step |-> t, left |-> l] :
        <<t, l>> \in {x \in (1..opt.max_episode_step) \X {0, 1} :
                         x[2] = 1 => x[1] = opt.max_episode_step}}

\* Evaluator.eval acting on the environment the evaluator holds
RunEvaluator ==
    IF EvaluatorEnv = "eval_env"
    THEN (\E out \in EvalPassOutcomes(eval_env) : eval_env' = out) /\ env' = env
    ELSE (\E out \in EvalPassOutcomes(env) : env' = out) /\ eval_env' = eval_env

\* trainer.py:64 and Evaluator.eval (evaluator.py:24-70)
TrajectoryEval ==
    /\ pc = "traj_eval"
    /\ RunEvaluator
    /\ actor_training' = FALSE
    /\ evals' = evals + 1
    /\ trace' = Append(trace, "eval")
    /\ pc' = "traj_save"
    /\ UNCHANGED <<upd, ev, opt, evaluator, actor_rnn, step, episode, episode_step,
                   ob, hidden, ob2_masked, done, buffer, samples, k, actor,
                   critic, critic_target, latest, ckpts, act_in, stored, counts>>

\* trainer.py:65 and save_model(path) (206-209)
SaveLatest ==
    /\ pc = "traj_save"
    /\ latest' = [actor |-> actor, critic |-> critic]
    /\ trace' = Append(trace, "save_latest")
    /\ pc' = "traj_update"
    /\ UNCHANGED <<upd, ev, eval_env, opt, evaluator, actor_rnn, step, episode, episode_step, ob,
                   hidden, ob2_masked, done, env, buffer, samples, k, actor,
                   critic, critic_target, actor_training, ckpts, evals, act_in,
                   stored, counts>>

\* variant: _update_policy leaves the actor's mode as it finds it
actor_train_kept(mode) == mode

\* trainer.py:98: self.actor.train() puts the actor in training mode
actor_train(mode) == TRUE

\* trainer.py:71-74 and _update_policy (97-101)
UpdatePolicy ==
    /\ pc = "traj_update"
    /\ IF PastWarmup
       THEN /\ actor_training' = actor_train(actor_training)
            /\ k' = 0
            /\ counts' = Bump(counts, "update_policy")
            /\ trace' = Append(trace, "update_policy")
            /\ pc' = "sample"
       ELSE /\ pc' = "reset"
            /\ UNCHANGED <<actor_training, k, counts, trace>>
    /\ UNCHANGED <<upd, ev, eval_env, opt, evaluator, actor_rnn, step, episode, episode_step, ob,
                   hidden, ob2_masked, done, env, buffer, samples, actor, critic,
                   critic_target, latest, ckpts, evals, act_in, stored>>

\* trainer.py:103-104 and ReplayMemory.sample_batch
SampleBatch ==
    /\ pc = "sample"
    /\ IF ~TrainIterationsLeft
       THEN pc' = "reset" /\ UNCHANGED <<samples, trace>>
       ELSE IF Size(buffer) = 0
       THEN pc' = "error" /\ UNCHANGED <<samples, trace>>
       ELSE /\ \E idx \in [1..opt.env_batch -> 1..Size(buffer)] :
                 samples' = [j \in 1..opt.env_batch |-> buffer.data[idx[j]]]
            /\ trace' = Append(trace, "sample")
            /\ pc' = "actor_step"
    /\ UNCHANGED <<upd, ev, eval_env, opt, evaluator, actor_rnn, step, episode, episode_step, ob,
                   hidden, ob2_masked, done, env, buffer, k, actor, critic,
                   critic_target, actor_training, latest, ckpts, evals, act_in,
                   stored, counts>>

\* _update, trainer.py:129-166: losses from the batch, actor optimizer step
ActorStep ==
    /\ pc = "actor_step"
    /\ actor' = actor + 1
    /\ samples' = <<>>
    /\ counts' = Bump(counts, "actor_step")
    /\ trace' = Append(trace, "actor_step")
    /\ pc' = "critic_step"
    /\ UNCHANGED <<upd, ev, eval_env, opt, evaluator, actor_rnn, step, episode, episode_step, ob,
                   hidden, ob2_masked, done, env, buffer, k, critic,
                   critic_target, actor_training, latest, ckpts, evals, act_in,
                   stored>>

\* variant: the target shares its parameters with the critic
CriticStep_aliased ==
    /\ pc = "critic_step"
    /\ critic' = critic + 1
    /\ critic_target' = Append(critic_target, critic')
    /\ counts' = Bump(counts, "critic_step")
    /\ trace' = Append(trace, "critic_step")
    /\ pc' = "soft_update"
    /\ UNCHANGED <<upd, ev, eval_env, opt, evaluator, actor_rnn, step, episode, episode_step, ob,
                   hidden, ob2_masked, done, env, buffer, samples, k, actor,
                   actor_training, latest, ckpts, evals, act_in, stored>>

\* _update, trainer.py:168-170: critic optimizer step
CriticStep ==
    /\ pc = "critic_step"
    /\ critic' = critic + 1
    /\ counts' = Bump(counts, "critic_step")
    /\ trace' = Append(trace, "critic_step")
    /\ pc' = "soft_update"
    /\ UNCHANGED <<upd, ev, eval_env, opt, evaluator, actor_rnn, step, episode, episode_step, ob,
                   hidden, ob2_masked, done, env, buffer, samples, k, actor,
                   critic_target, actor_training, latest, ckpts, evals, act_in,
                   stored>>

\* _update, trainer.py:173-175, and back to the loop of _update_policy
SoftUpdate ==
    /\ pc = "soft_update"
    /\ critic_target' = Append(critic_target, critic)
    /\ k' = k + 1
    /\ counts' = Bump(counts, "update")
    /\ trace' = Append(trace, "update")
    /\ pc' = "sample"
    /\ UNCHANGED <<upd, ev, eval_env, opt, evaluator, actor_rnn, step, episode, episode_step, ob,
                   hidden, ob2_masked, done, env, buffer, samples, actor, critic,
                   actor_training, latest, ckpts, evals, act_in, stored>>

\* trainer.py:86-89
ResetEpisode ==
    /\ pc = "reset"
    /\ env' = EnvReset(env)
    /\ ob' = Observation(env')
    /\ episode' = episode + 1
    /\ episode_step' = 0
    /\ trace' = Append(trace, "reset")
    /\ pc' = "savetest"
    /\ UNCHANGED <<upd, ev, eval_env, opt, evaluator, actor_rnn, step, hidden, ob2_masked, done,
                   buffer, samples, k, actor, critic, critic_target,
                   actor_training, latest, ckpts, evals, act_in, stored, counts>>

\* trainer.py:92
SaveTest ==
    /\ pc = "savetest"
    /\ pc' = IF SaveDue(step) THEN "save_eval" ELSE "loop"
    /\ UNCHANGED <<upd, ev, eval_env, opt, evaluator, actor_rnn, step, episode, episode_step, ob,
                   hidden, ob2_masked, done, env, buffer, samples, k, actor,
                   critic, critic_target, actor_training, latest, ckpts, evals,
                   act_in, stored, counts, trace>>

\* trainer.py:93: self.evaluator.eval(self.actor, step), no None test
SaveEval ==
    /\ pc = "save_eval"
    /\ IF evaluator
       THEN /\ RunEvaluator
            /\ actor_training' = FALSE
            /\ evals' = evals + 1
            /\ trace' = Append(trace, "eval_step")
            /\ pc' = "save_ckpt"
       ELSE /\ pc' = "error"
            /\ UNCHANGED <<actor_training, evals, trace, env, eval_env>>
    /\ UNCHANGED <<upd, ev, opt, evaluator, actor_rnn, step, episode, episode_step,
                   ob, hidden, ob2_masked, done, buffer, samples, k, actor,
                   critic, critic_target, latest, ckpts, act_in, stored, counts>>

\* trainer.py:94-95 and save_model(path, step) (210-214)
SaveNumbered ==
    /\ pc = "save_ckpt"
    /\ ckpts' = ckpts \cup {[step |-> step, actor |-> actor, critic |-> critic]}
    /\ trace' = Append(trace, "save_step")
    /\ pc' = "loop"
    /\ UNCHANGED <<upd, ev, eval_env, opt, evaluator, actor_rnn, step, episode, episode_step, ob,
                   hidden, ob2_masked, done, env, buffer, samples, k, actor,
                   critic, critic_target, actor_training, latest, evals, act_in,
                   stored, counts>>

Next ==
    \/ TrainStart
    \/ LoopHead
    \/ RunPolicy
    \/ StepEnv
    \/ StoreExperience
    \/ TrajectoryTest
    \/ TrajectoryEval
    \/ SaveLatest
    \/ UpdatePolicy
    \/ SampleBatch
    \/ ActorStep
    \/ CriticStep
    \/ SoftUpdate
    \/ ResetEpisode
    \/ SaveTest
    \/ SaveEval
    \/ SaveNumbered

Spec == Init /\ [][Next]_vars

\* the runs whose termination is checked: those of the smaller batch size
\* MDDPGTrainer.__init__ (trainer.py:16-24): evaluator is an optional argument
\* whose default is None
InitOptionalEvaluator ==
    /\ opt \in Options
    /\ evaluator \in BOOLEAN
    /\ Constructed
    /\ ev = EvIdle
    /\ upd = UpdIdle

SpecOptionalEvaluator == InitOptionalEvaluator /\ [][Next]_vars

FairInit == Init /\ opt.env_batch = MaxEnvBatch - 1

\* train() is the only thread of control and runs until it returns
FairSpec == FairInit /\ [][Next]_vars /\ WF_vars(Next)

\* ---------------------------------------------------------------- _update()
\* Tensor values are fixed-point numbers in hundredths (1.00 is 100).

\* opt.discount = 0.99
DiscountPct == 99

\* raw rewards returned by env.forward
Rewards == {50, 100}

\* outputs of the critic and the critic-target
Values == {0 - 500, 1000}

\* opt.loop_penalty
Penalties == {0, 10}

\* the options a single _update_policy call depends on
UpdateOptions ==
    {o \in Options : /\ o.warmup = MaxWarmup
                     /\ o.max_episode_step = MaxEpisodeStep
                     /\ o.validate_interval = MaxValidateInterval
                     /\ o.episode_train_times = MaxTrainTimes}

\* product of a factor in hundredths and a value
Mul(f, v) == (f * v) \div 100

\* trainer.py:137: reward -= self.opt.loop_penalty
Penalized(raw, pen) == raw - pen

\* variant: the stop indicator does not mask the bootstrap
Masked_noStop(stop, v) == Mul(DiscountPct, v)

\* trainer.py:146-147 and :154: (discount * (1 - idx_stop)) * V
Masked(stop, v) == Mul(DiscountPct * (1 - stop), v)

\* trainer.py:148: Q_target = V_next_target + reward
TDTarget(reward, stop, v) == Masked(stop, v) + reward

\* trainer.py:155: ddpg_loss = V_next + reward
DdpgLoss(reward, stop, v) == Masked(stop, v) + reward

\* the networks whose parameters policy_loss reaches: the actor through
\* action_log_prob, dist_entropy and state2, the critic through V_next (:153)
PolicyLossParams == {"actor", "critic"}

\* the networks value_loss reaches: Q_target is built under no_grad and V_cur
\* is the critic on a stored state (:143-148, :161)
ValueLossParams == {"critic"}

\* variant: the gradients are not cleared
zero_grad_kept(g) == g

\* nn.Module.zero_grad()
zero_grad(g) == {}

\* loss.backward(): the loss is added to the gradient of every network it reaches
Backward(g, net, loss, reached) == IF net \in reached THEN g \cup {loss} ELSE g

\* trainer.py:104-105 and 123-134: a batch is sampled, the actor samples an
\* action for it, the networks are evaluated on it
U_Begin ==
    /\ upd.pc = "idle"
    /\ upd.completed < opt.episode_train_times
    /\ \E raw \in [1..opt.env_batch -> Rewards],
          stop \in [1..opt.env_batch -> {0, 1}],
          vc \in [1..opt.env_batch -> Values],
          vt \in [1..opt.env_batch -> Values],
          vn \in [1..opt.env_batch -> Values] :
         upd' = [upd EXCEPT !.pc = "forward", !.n = opt.env_batch, !.raw = raw,
                            !.idx_stop = stop, !.V_cur = vc, !.V_target = vt,
                            !.V_critic = vn]
    /\ UNCHANGED <<ev, eval_env, opt, evaluator, actor_rnn, pc, step, episode,
                   episode_step, ob, hidden, ob2_masked, done, env, buffer,
                   samples, k, actor, critic, critic_target, actor_training,
                   latest, ckpts, evals, act_in, stored, counts, trace>>

\* trainer.py:136-140
U_Forward ==
    /\ upd.pc = "forward"
    /\ upd' = [upd EXCEPT !.pc = "target",
                          !.reward = [i \in 1..upd.n |->
                                        Penalized(upd.raw[i], upd.loop_penalty)]]
    /\ UNCHANGED <<ev, eval_env, opt, evaluator, actor_rnn, pc, step, episode,
                   episode_step, ob, hidden, ob2_masked, done, env, buffer,
                   samples, k, actor, critic, critic_target, actor_training,
                   latest, ckpts, evals, act_in, stored, counts, trace>>

\* trainer.py:143-150
U_Target ==
    /\ upd.pc = "target"
    /\ LET q == [i \in 1..upd.n |->
                   TDTarget(upd.reward[i], upd.idx_stop[i], upd.V_target[i])]
       IN upd' = [upd EXCEPT !.pc = "ddpg", !.Q_target = q,
                             !.advantage = [i \in 1..upd.n |-> q[i] - upd.V_cur[i]]]
    /\ UNCHANGED <<ev, eval_env, opt, evaluator, actor_rnn, pc, step, episode,
                   episode_step, ob, hidden, ob2_masked, done, env, buffer,
                   samples, k, actor, critic, critic_target, actor_training,
                   latest, ckpts, evals, act_in, stored, counts, trace>>

\* trainer.py:153-161
U_Ddpg ==
    /\ upd.pc = "ddpg"
    /\ upd' = [upd EXCEPT !.pc = "actor_opt",
                          !.ddpg_loss = [i \in 1..upd.n |->
                              DdpgLoss(upd.reward[i], upd.idx_stop[i], upd.V_critic[i])]]
    /\ UNCHANGED <<ev, eval_env, opt, evaluator, actor_rnn, pc, step, episode,
                   episode_step, ob, hidden, ob2_masked, done, env, buffer,
                   samples, k, actor, critic, critic_target, actor_training,
                   latest, ckpts, evals, act_in, stored, counts, trace>>

\* trainer.py:164-166: actor.zero_grad(); policy_loss.backward(); actor step
U_ActorOpt ==
    /\ upd.pc = "actor_opt"
    /\ LET ag == Backward(zero_grad(upd.actor_grad), "actor", "policy_loss",
                          PolicyLossParams)
           cg == Backward(upd.critic_grad, "critic", "policy_loss",
                          PolicyLossParams)
       IN upd' = [upd EXCEPT !.pc = "critic_opt", !.actor_grad = ag,
                             !.critic_grad = cg,
                             !.actor_applied = Append(@, ag)]
    /\ UNCHANGED <<ev, eval_env, opt, evaluator, actor_rnn, pc, step, episode,
                   episode_step, ob, hidden, ob2_masked, done, env, buffer,
                   samples, k, actor, critic, critic_target, actor_training,
                   latest, ckpts, evals, act_in, stored, counts, trace>>

\* trainer.py:168-170: critic.zero_grad(); value_loss.backward(); critic step
U_CriticOpt ==
    /\ upd.pc = "critic_opt"
    /\ LET ag == Backward(upd.actor_grad, "actor", "value_loss", ValueLossParams)
           cg == Backward(zero_grad(upd.critic_grad), "critic", "value_loss",
                          ValueLossParams)
       IN upd' = [upd EXCEPT !.pc = "soft", !.actor_grad = ag,
                             !.critic_grad = cg,
                             !.critic_applied = Append(@, cg)]
    /\ UNCHANGED <<ev, eval_env, opt, evaluator, actor_rnn, pc, step, episode,
                   episode_step, ob, hidden, ob2_masked, done, env, buffer,
                   samples, k, actor, critic, critic_target, actor_training,
                   latest, ckpts, evals, act_in, stored, counts, trace>>

\* trainer.py:173-175: soft update, return; the tensors of the call are dropped
U_Soft ==
    /\ upd.pc = "soft"
    /\ upd' = [UpdIdle EXCEPT !.loop_penalty = upd.loop_penalty,
                              !.actor_grad = upd.actor_grad,
                              !.critic_grad = upd.critic_grad,
                              !.actor_applied = upd.actor_applied,
                              !.critic_applied = upd.critic_applied,
                              !.completed = upd.completed + 1]
    /\ UNCHANGED <<ev, eval_env, opt, evaluator, actor_rnn, pc, step, episode,
                   episode_step, ob, hidden, ob2_masked, done, env, buffer,
                   samples, k, actor, critic, critic_target, actor_training,
                   latest, ckpts, evals, act_in, stored, counts, trace>>

\* one _update_policy call on arbitrary batches
UpdateInit ==
    /\ opt \in UpdateOptions
    /\ evaluator = TRUE
    /\ Constructed
    /\ ev = EvIdle
    /\ \E p \in Penalties : upd = [UpdIdle EXCEPT !.loop_penalty = p]

UpdateNext ==
    \/ U_Begin
    \/ U_Forward
    \/ U_Target
    \/ U_Ddpg
    \/ U_ActorOpt
    \/ U_CriticOpt
    \/ U_Soft

UpdateSpec == UpdateInit /\ [][UpdateNext]_vars

\* ---------------------------------------------------------------- Evaluator
\* the options one evaluation pass depends on
EvalOptions ==
    {o \in Options : /\ o.warmup = MaxWarmup
                     /\ o.env_batch = MaxEnvBatch
                     /\ o.validate_interval = MaxValidateInterval
                     /\ o.episode_train_times = MaxTrainTimes}

\* env.reset(data=data) with a batch of one (evaluator.py:30, :74)
EvalReset(e) == [episode |-> e.episode + 1, cur_step |-> 0, left |-> 1]

\* variant: the penalty is subtracted at every step
StepReward_always(raw, d, pen) == raw - pen

\* evaluator.py:95-96
StepReward(raw, d, pen) == IF ~d THEN raw - pen ELSE raw

\* variant: the loop goes on after a done
AfterStep_noBreak(d) == "loop"

\* evaluator.py:113-114: if done: break
AfterStep(d) == IF d THEN "return" ELSE "loop"

RECURSIVE Sum(_)
Sum(q) == IF q = <<>> THEN 0 ELSE Head(q) + Sum(Tail(q))

\* Evaluator.eval, evaluator.py:25-29: policy.eval(), first sample
E_Begin ==
    /\ ev.pc = "idle"
    /\ actor_training' = FALSE
    /\ ev' = [ev EXCEPT !.pc = "start", !.sample = 1]
    /\ UNCHANGED <<upd, eval_env, opt, evaluator, actor_rnn, pc, step, episode,
                   episode_step, ob, hidden, ob2_masked, done, env, buffer,
                   samples, k, actor, critic, critic_target, latest, ckpts,
                   evals, act_in, stored, counts, trace>>

\* eval_single, evaluator.py:74-88
ES_Reset ==
    /\ ev.pc = "start"
    /\ eval_env' = EvalReset(eval_env)
    /\ ev' = [ev EXCEPT !.pc = "loop", !.episode_steps = 0, !.episode_reward = 0,
                        !.psnr_seq = 1, !.reward_seq = <<0>>, !.raw_seq = <<>>,
                        !.done_seq = <<>>, !.done = FALSE]
    /\ UNCHANGED <<upd, opt, evaluator, actor_rnn, pc, step, episode,
                   episode_step, ob, hidden, ob2_masked, done, env, buffer,
                   samples, k, actor, critic, critic_target, actor_training,
                   latest, ckpts, evals, act_in, stored, counts, trace>>

\* eval_single, evaluator.py:89
ES_LoopTest ==
    /\ ev.pc = "loop"
    /\ ev' = [ev EXCEPT !.pc = IF ev.episode_steps < opt.max_episode_step
                                THEN "step" ELSE "return"]
    /\ UNCHANGED <<upd, eval_env, opt, evaluator, actor_rnn, pc, step, episode,
                   episode_step, ob, hidden, ob2_masked, done, env, buffer,
                   samples, k, actor, critic, critic_target, actor_training,
                   latest, ckpts, evals, act_in, stored, counts, trace>>

\* eval_single, evaluator.py:90-114
ES_Step ==
    /\ ev.pc = "step"
    /\ \E l \in 0..eval_env.left, raw \in Rewards :
         /\ eval_env' = EnvStep(eval_env, l)
         /\ LET d == EnvDone(eval_env')
                reward == StepReward(raw, d, ev.loop_penalty)
            IN ev' = [ev EXCEPT !.pc = AfterStep(d),
                                !.done = d,
                                !.episode_reward = @ + reward,
                                !.episode_steps = @ + 1,
                                !.psnr_seq = @ + 1,
                                !.reward_seq = Append(@, reward),
                                !.raw_seq = Append(@, raw),
                                !.done_seq = Append(@, d)]
    /\ UNCHANGED <<upd, opt, evaluator, actor_rnn, pc, step, episode,
                   episode_step, ob, hidden, ob2_masked, done, env, buffer,
                   samples, k, actor, critic, critic_target, actor_training,
                   latest, ckpts, evals, act_in, stored, counts, trace>>

\* eval_single, evaluator.py:116-123
ES_Return ==
    /\ ev.pc = "return"
    /\ ev' = [ev EXCEPT !.pc = "returned"]
    /\ UNCHANGED <<upd, eval_env, opt, evaluator, actor_rnn, pc, step, episode,
                   episode_step, ob, hidden, ob2_masked, done, env, buffer,
                   samples, k, actor, critic, critic_target, actor_training,
                   latest, ckpts, evals, act_in, stored, counts, trace>>

\* Evaluator.eval, evaluator.py:29 and :45-70: next sample, or the pass ends
E_Next ==
    /\ ev.pc = "returned"
    /\ ev' = IF ev.sample < MaxValSamples
             THEN [ev EXCEPT !.pc = "start", !.sample = @ + 1]
             ELSE [ev EXCEPT !.pc = "finished"]
    /\ UNCHANGED <<upd, eval_env, opt, evaluator, actor_rnn, pc, step, episode,
                   episode_step, ob, hidden, ob2_masked, done, env, buffer,
                   samples, k, actor, critic, critic_target, actor_training,
                   latest, ckpts, evals, act_in, stored, counts, trace>>

\* one evaluation pass over MaxValSamples held-out samples
EvalInit ==
    /\ opt \in EvalOptions
    /\ evaluator = TRUE
    /\ Constructed
    /\ \E p \in Penalties : ev = [EvIdle EXCEPT !.loop_penalty = p]
    /\ upd = UpdIdle

EvalNext ==
    \/ E_Begin
    \/ ES_Reset
    \/ ES_LoopTest
    \/ ES_Step
    \/ ES_Return
    \/ E_Next

EvalSpec == EvalInit /\ [][EvalNext]_vars

\* the evaluator runs until it returns
EvalFairSpec == EvalSpec /\ WF_vars(EvalNext)

\* ---------------------------------------------------------------- properties
\* positions between two loop iterations
AtBoundary == pc \in {"loop", "done"}

\* positions inside _update
InUpdate == pc \in {"actor_step", "critic_step", "soft_update"}

\* a trajectory ended during the current iteration
Ended == Count("reset", trace) > 0

\* C1 (as stated): after N loop steps the buffer holds min(N, capacity) records
C1_SizeIsMinSteps ==
    AtBoundary => Size(buffer) = Min(step, opt.rmsize * opt.max_episode_step)

\* C1 (amended): the buffer holds min(S, capacity) records, S being the number
\* of per-sample records stored so far; every step stores one record per sample
\* of its pre-step observation (between 1 and env_batch), so after N steps the
\* size lies between min(N, capacity) and min(N * env_batch, capacity), and it
\* is min(N, capacity) when env_batch = 1
C1_SizeIsMinRecords ==
    LET cap == opt.rmsize * opt.max_episode_step IN
    /\ Size(buffer) = Min(stored, cap)
    /\ AtBoundary =>
         /\ step <= stored /\ stored <= step * opt.env_batch
         /\ Min(step, cap) <= Size(buffer)
         /\ Size(buffer) <= Min(step * opt.env_batch, cap)
         /\ opt.env_batch = 1 => Size(buffer) = Min(step, cap)

C1_Witness ==
    /\ pc = "loop"
    /\ Size(buffer) > step
    /\ Size(buffer) = stored

\* C2: a complete run performs at least floor((train_steps - warmup) /
\* max_episode_step) policy updates, each of episode_train_times iterations
C2_MinPolicyUpdates ==
    pc = "done" =>
        /\ counts.update_policy >=
               (opt.train_steps - opt.warmup) \div opt.max_episode_step
        /\ counts.update = counts.update_policy * opt.episode_train_times

C2_Witness ==
    /\ pc = "done"
    /\ counts.update_policy > 0
    /\ counts.update_policy = (opt.train_steps - opt.warmup) \div opt.max_episode_step
    /\ opt.max_episode_step > 1

\* C3: after every iteration the step-numbered checkpoints are exactly those of
\* the steps s with s % save_freq = 0 or s = train_steps; at such a step the
\* iteration ends with an evaluation pass followed by the checkpoint of step s,
\* at any other step neither happens
C3_StepCheckpoints ==
    LET due(s) == s % opt.save_freq = 0 \/ s = opt.train_steps
        n == Len(trace)
    IN  (AtBoundary /\ step >= 1) =>
          /\ {c.step : c \in ckpts} = {s \in 1..step : due(s)}
          /\ due(step) =>
                /\ n >= 2 /\ trace[n - 1] = "eval_step" /\ trace[n] = "save_step"
                /\ Count("eval_step", trace) = 1 /\ Count("save_step", trace) = 1
                /\ [step |-> step, actor |-> actor, critic |-> critic] \in ckpts
          /\ ~due(step) =>
                Count("eval_step", trace) = 0 /\ Count("save_step", trace) = 0

C3_Witness ==
    /\ pc = "loop"
    /\ step >= 1 /\ step <= opt.warmup /\ step < opt.train_steps
    /\ step % opt.save_freq = 0
    /\ ~Ended
    /\ \E c \in ckpts : c.step = step

\* C4: train() terminates, and it has then made exactly train_steps action
\* selections, env.step calls and save_experience calls, one of each per step
C4_ExactlyTrainSteps ==
    /\ [](/\ step <= opt.train_steps
          /\ Count("select", trace) <= 1
          /\ Count("envstep", trace) <= 1
          /\ Count("save", trace) <= 1
          /\ AtBoundary =>
                /\ counts.select = step
                /\ counts.envstep = step
                /\ counts.save = step
          /\ pc = "done" => step = opt.train_steps)
    /\ <>(pc = "done")

C4_Witness ==
    /\ pc = "done"
    /\ counts.envstep = opt.train_steps
    /\ episode >= 2
    /\ counts.update >= 2
    /\ evals >= 2

\* C5: a trajectory ends exactly at a step where env.step reported done or
\* episode_step reached max_episode_step; the environment is then reset,
\* episode_step is 0 and episode has grown by one; an iteration starts with
\* 0 <= episode_step < max_episode_step and no trajectory has more than
\* max_episode_step env.step calls
C5_TrajectoryEnds ==
    /\ pc \in {"loop", "select", "envstep"} =>
         episode_step >= 0 /\ episode_step < opt.max_episode_step
    /\ env.cur_step <= opt.max_episode_step
    /\ pc # "start" => env.episode = episode + 1
    /\ pc \in {"savetest", "save_eval", "save_ckpt"} =>
         /\ Ended <=> (done \/ ob2_masked.t = opt.max_episode_step)
         /\ Count("reset", trace) <= 1
         /\ Ended =>
               /\ episode_step = 0
               /\ env.cur_step = 0
               /\ ob = [ep |-> ob2_masked.ep + 1, t |-> 0, B |-> opt.env_batch]
         /\ ~Ended =>
               /\ episode_step = ob2_masked.t
               /\ ob = ob2_masked

C5_Witness ==
    /\ pc = "savetest"
    /\ Ended
    /\ done
    /\ ob2_masked.t < opt.max_episode_step
    /\ episode >= 2

\* C6 (as stated): the first action of every episode is selected from the
\* initial hidden state
C6_FreshHiddenPerEpisode ==
    act_in.first => act_in.hidden = (IF actor_rnn THEN 0 ELSE None)

\* C7 (as stated): the records stored at a step carry the pre-step observation
\* and the hidden state the actor was conditioned on for it
C7_StoredPairsActorInput ==
    pc = "traj" =>
        \A i \in 1..Len(buffer.data) :
            LET r == buffer.data[i] IN
            (r.ep = act_in.ob.ep /\ r.t = act_in.ob.t) =>
                r.hidden = (IF act_in.hidden # None THEN act_in.hidden ELSE Dummy)

\* C8: no gradient update at a step <= warmup or at a step where no trajectory
\* ended; at a trajectory end past warmup exactly episode_train_times updates
\* run one after the other, each on its own batch of env_batch stored records
C8_UpdatesGated ==
    /\ (pc = "sample" \/ InUpdate) =>
         /\ step > opt.warmup
         /\ done \/ episode_step = opt.max_episode_step
    /\ pc = "actor_step" =>
         /\ Len(samples) = opt.env_batch
         /\ \A j \in 1..Len(samples) :
               \E i \in 1..Len(buffer.data) : buffer.data[i] = samples[j]
    /\ \A i \in 1..Len(trace) :
         trace[i] = "update" =>
            /\ i >= 5
            /\ trace[i - 3] = "sample"
            /\ trace[i - 2] = "actor_step"
            /\ trace[i - 1] = "critic_step"
            /\ trace[i - 4] \in {"update_policy", "update"}
    /\ Count("sample", trace) <= opt.episode_train_times
    /\ pc \in {"savetest", "save_eval", "save_ckpt", "loop", "done"} =>
         /\ Count("sample", trace) = Count("update", trace)
         /\ Count("update", trace) =
               (IF Ended /\ step > opt.warmup THEN opt.episode_train_times ELSE 0)

C8_Witness ==
    /\ pc = "savetest"
    /\ Ended
    /\ step > opt.warmup
    /\ opt.warmup > 0
    /\ opt.episode_train_times = 2
    /\ Count("update", trace) = 2
    /\ counts.update = 2

C10_TargetOnlySoftUpdated ==
    /\ [](/\ Head(critic_target) = 0
          /\ Len(critic_target) = 1 + counts.update
          /\ ~InUpdate =>
                /\ counts.actor_step = counts.update
                /\ counts.critic_step = counts.update)
    /\ [][critic_target' # critic_target =>
            /\ pc = "soft_update"
            /\ counts.actor_step = counts.update + 1
            /\ counts.critic_step = counts.update + 1
            /\ critic_target' = Append(critic_target, critic)
            /\ critic = counts.critic_step
            /\ counts'.update = counts.update + 1]_vars

C10_Witness ==
    /\ pc = "sample"
    /\ Len(critic_target) >= 3
    /\ critic_target[Len(critic_target)] = critic
    /\ evals >= 1

\* the TD target and the DDPG term of the current _update are computed
UpdTargetsDone == upd.pc \in {"actor_opt", "critic_opt", "soft"}

\* C11: for every sample on its own, Q_target = reward + discount * (1 -
\* idx_stop) * critic_target(next state): the reward alone when idx_stop = 1,
\* the reward plus 0.99 times the target value when idx_stop = 0; the DDPG
\* term masks critic(next state) the same way
C11_TDTarget ==
    UpdTargetsDone =>
        \A i \in 1..upd.n :
            /\ upd.idx_stop[i] = 1 =>
                  /\ upd.Q_target[i] = upd.reward[i]
                  /\ upd.ddpg_loss[i] = upd.reward[i]
            /\ upd.idx_stop[i] = 0 =>
                  /\ upd.Q_target[i] = upd.reward[i] + (99 * upd.V_target[i]) \div 100
                  /\ upd.ddpg_loss[i] = upd.reward[i] + (99 * upd.V_critic[i]) \div 100
            /\ upd.advantage[i] = upd.Q_target[i] - upd.V_cur[i]

C11_Witness ==
    /\ UpdTargetsDone
    /\ upd.n = 2
    /\ upd.idx_stop[1] = 0 /\ upd.reward[1] = 100 /\ upd.V_target[1] = 1000
    /\ upd.Q_target[1] = 1090
    /\ upd.idx_stop[2] = 1 /\ upd.V_target[2] = 1000
    /\ upd.Q_target[2] = upd.reward[2]

\* C13 (as stated): in _update the loop penalty is subtracted from the reward
\* of the samples with idx_stop = 0 only
C13_TerminalRewardUnpenalized ==
    UpdTargetsDone =>
        \A i \in 1..upd.n :
            /\ upd.idx_stop[i] = 1 => upd.reward[i] = upd.raw[i]
            /\ upd.idx_stop[i] = 0 => upd.reward[i] = upd.raw[i] - upd.loop_penalty

\* C15: every _update applies one actor optimizer step, then one critic
\* optimizer step; the actor's step uses the gradient of the policy loss only,
\* the critic's step the gradient of the value loss only
C15_IsolatedSteps ==
    /\ Len(upd.actor_applied) =
          upd.completed + (IF upd.pc \in {"critic_opt", "soft"} THEN 1 ELSE 0)
    /\ Len(upd.critic_applied) =
          upd.completed + (IF upd.pc = "soft" THEN 1 ELSE 0)
    /\ \A i \in 1..Len(upd.actor_applied) : upd.actor_applied[i] = {"policy_loss"}
    /\ \A i \in 1..Len(upd.critic_applied) : upd.critic_applied[i] = {"value_loss"}

C15_Witness ==
    /\ upd.pc = "soft"
    /\ upd.completed = 1
    /\ Len(upd.critic_applied) = 2
    /\ upd.critic_applied[2] = {"value_loss"}
    /\ upd.actor_applied[2] = {"policy_loss"}

\* eval_single is running or has returned
InEvalSingle == ev.pc \in {"loop", "step", "return", "returned"}

\* C12: the reward recorded for a step is the raw reward when the step's done
\* is true and the raw reward minus loop_penalty when it is false;
\* episode_reward is the sum of reward_seq
C12_EvalReward ==
    InEvalSingle =>
        /\ Len(ev.reward_seq) = Len(ev.raw_seq) + 1
        /\ \A i \in 1..Len(ev.raw_seq) :
              ev.reward_seq[i + 1] =
                 (IF ev.done_seq[i] THEN ev.raw_seq[i]
                  ELSE ev.raw_seq[i] - ev.loop_penalty)
        /\ ev.episode_reward = Sum(ev.reward_seq)

C12_Witness ==
    /\ ev.pc = "returned"
    /\ ev.loop_penalty = 10
    /\ ev.raw_seq = <<50, 50>>
    /\ ev.reward_seq = <<0, 40, 50>>
    /\ ev.episode_reward = 90

\* C14: eval_single terminates; it resets the environment once, makes at most
\* max_episode_step env.step calls, none after a done; on return
\* 1 <= episode_steps <= max_episode_step, the last step was done or the cap was
\* reached, and psnr_seq and reward_seq have episode_steps + 1 entries
C14_EvalSingleTerminates ==
    /\ [](InEvalSingle =>
            /\ eval_env.episode = ev.sample
            /\ eval_env.cur_step = ev.episode_steps
            /\ ev.episode_steps <= opt.max_episode_step
            /\ Len(ev.done_seq) = ev.episode_steps
            /\ \A i \in 1..(Len(ev.done_seq) - 1) : ~ev.done_seq[i]
            /\ ev.psnr_seq = ev.episode_steps + 1
            /\ Len(ev.reward_seq) = ev.episode_steps + 1
            /\ ev.reward_seq[1] = 0
            /\ ev.pc \in {"return", "returned"} =>
                  /\ ev.episode_steps >= 1
                  /\ ev.done_seq[ev.episode_steps]
                        \/ ev.episode_steps = opt.max_episode_step)
    /\ [](ev.pc = "start" => <>(ev.pc = "returned"))

C14_Witness ==
    /\ ev.pc = "returned"
    /\ ev.sample = 2
    /\ ev.episode_steps = 1
    /\ ev.episode_steps < opt.max_episode_step
    /\ ev.done

\* C19: an evaluation pass leaves the training environment, the trainer's
\* observation, hidden state and episode_step and the replay buffer as they
\* were and acts on the evaluator's environment; the training step after it
\* continues the trajectory from the training environment's current observation
C19_EvalLeavesTrainingState ==
    /\ [][(pc \in {"traj_eval", "save_eval"} /\ pc' # "error") =>
            /\ env' = env
            /\ ob' = ob
            /\ hidden' = hidden
            /\ episode_step' = episode_step
            /\ buffer' = buffer
            /\ eval_env'.episode > eval_env.episode]_vars
    /\ [](pc \in {"loop", "select", "envstep"} /\ step >= 1 =>
            /\ ob.ep = env.episode
            /\ ob.t = env.cur_step
            /\ ob.t = episode_step
            /\ ob.B = env.left)

C19_Witness ==
    /\ pc = "envstep"
    /\ evals >= 1
    /\ eval_env.episode >= 1
    /\ episode_step >= 1
    /\ act_in.ob.t = 1
    /\ act_in.ob.ep = env.episode
    /\ trace = <<"select">>
    /\ (step - 1) % opt.save_freq = 0
    /\ step - 1 <= opt.warmup

\* C16: the actor is in training mode whenever _update is about to invoke it
\* for a gradient step, and each rollout action selection is made in inference
\* mode and leaves the actor in training mode, whatever evaluator passes
\* happened before
C16_ActorModes ==
    /\ pc = "actor_step" => actor_training
    /\ pc = "envstep" => act_in.training = FALSE /\ actor_training

C16_Witness ==
    /\ pc = "actor_step"
    /\ k = 0
    /\ Count("eval", trace) = 1
    /\ actor_training

\* C17: sample_batch is never called on an empty buffer, and the run never
\* stops in the error a draw from an empty buffer raises
C17_NeverSampleEmpty ==
    /\ (pc = "sample" /\ k < opt.episode_train_times) => Len(buffer.data) >= 1
    /\ pc # "error"

C17_Witness ==
    /\ pc = "sample"
    /\ k = 0
    /\ opt.warmup = 0
    /\ step = 1
    /\ Len(buffer.data) >= 1

\* C18: a trainer constructed without an evaluator never stops in an error
C18_NoEvaluatorNoError == evaluator = FALSE => pc # "error"

\* an evaluation pass run step by step leaves the evaluator's environment in
\* one of the states the training loop's evaluation step assumes
EvalPassMatches ==
    ev.pc = "finished" =>
        eval_env \in EvalPassOutcomes([episode |-> 0, cur_step |-> 0, left |-> 0])
====
